---- MODULE Spec2Model ----
(***************************************************************************)
(* A model of find_coordinator.py: the retrieval pipeline of               *)
(* find_coordinators (column check, combined_text, TF-IDF, cosine          *)
(* similarity, top-n selection, coordinator join, result rows) and the     *)
(* download cache of download_and_extract.                                 *)
(*                                                                         *)
(* Text that the program tokenizes or case-folds is a sequence of          *)
(* one-character strings; opaque values (identifiers, names, dates) are    *)
(* strings.  Real numbers are fixed point: IDF in 1/1000, vector           *)
(* components in 1/10000, similarities in 1/1000000, the rounded           *)
(* 'Similarity Score' in 1/10000.                                          *)
(***************************************************************************)
EXTENDS Integers, Sequences, FiniteSets, TLC

(***************************************************************************)
(* Bounds of the model.                                                    *)
(***************************************************************************)
MaxTextRows == 2
MaxProjects == 3
MaxOrgs == 2
MaxTopN == 4
MaxChunks == 3
MaxInvocations == 4

(***************************************************************************)
(* Characters and strings.                                                 *)
(***************************************************************************)
Uppers == <<"A","B","C","D","E","F","G","H","I","J","K","L","M",
            "N","O","P","Q","R","S","T","U","V","W","X","Y","Z">>
Lowers == <<"a","b","c","d","e","f","g","h","i","j","k","l","m",
            "n","o","p","q","r","s","t","u","v","w","x","y","z">>

Range(s) == {s[k] : k \in DOMAIN s}

\* str.lower() on one character
LowerChar(c) ==
  IF \E k \in DOMAIN Uppers : Uppers[k] = c
    THEN Lowers[CHOOSE k \in DOMAIN Uppers : Uppers[k] = c]
    ELSE c

\* str.lower()
Lower(s) == [k \in DOMAIN s |-> LowerChar(s[k])]

\* the regular expression class \w, over the characters of the model
IsWordChar(c) == c \in Range(Uppers) \cup Range(Lowers)

\* pandas' missing value (NaN): a one-element sequence whose element is
\* no character, so it differs from every string, the empty one included
NaN == <<"NaN">>

\* Series.fillna('')
FillNa(v) == IF v = NaN THEN <<>> ELSE v

\* Python's s1 + ' ' + s2
SpaceJoin(a, b) == a \o <<" ">> \o b

\* Series.get(key, default) on a row
Get(row, key, default) == IF key \in DOMAIN row THEN row[key] ELSE default

(***************************************************************************)
(* TfidfVectorizer(stop_words='english'): lowercase, tokens matching       *)
(* \b\w\w+\b, English stop words removed, smoothed IDF, l2 norm.           *)
(***************************************************************************)
\* the members of sklearn's ENGLISH_STOP_WORDS that the model's texts use
StopWords == { <<"t","h","e">>, <<"o","f">>, <<"a","n","d">>, <<"f","o","r">> }

\* the maximal runs of word characters of s from position k on, cur being
\* the run that is open at k
RECURSIVE Runs(_, _, _)
Runs(s, k, cur) ==
  IF k > Len(s)
    THEN IF cur = <<>> THEN <<>> ELSE <<cur>>
    ELSE IF IsWordChar(s[k])
      THEN Runs(s, k + 1, Append(cur, s[k]))
      ELSE (IF cur = <<>> THEN <<>> ELSE <<cur>>) \o Runs(s, k + 1, <<>>)

\* token_pattern r"(?u)\b\w\w+\b" after lowercasing: runs of two or more
Tokenize(doc) ==
  LET IsToken(t) == Len(t) >= 2
  IN  SelectSeq(Runs(Lower(doc), 1, <<>>), IsToken)

\* the analyzer: tokenize, then drop the stop words
Analyze(doc) ==
  LET Kept(t) == t \notin StopWords
  IN  SelectSeq(Tokenize(doc), Kept)

\* vocabulary_ learned by fit: the terms of the analyzed documents
Vocabulary(toks) == UNION {Range(toks[k]) : k \in DOMAIN toks}

\* term frequency of t in an analyzed document
Count(t, ts) == Cardinality({k \in DOMAIN ts : ts[k] = t})

\* document frequency of t
Df(t, toks) == Cardinality({k \in DOMAIN toks : t \in Range(toks[k])})

\* 1000 * ln(k) for k = 1..8, rounded
LnTable == <<0, 693, 1099, 1386, 1609, 1792, 1946, 2079>>

\* smooth_idf: idf(t) = ln((1 + n) / (1 + df(t))) + 1, in 1/1000
Idf(t, toks) == LnTable[1 + Len(toks)] - LnTable[1 + Df(t, toks)] + 1000

RECURSIVE SumSq(_, _)
SumSq(v, S) ==
  IF S = {} THEN 0
  ELSE LET t == CHOOSE x \in S : TRUE
       IN  v[t] * v[t] + SumSq(v, S \ {t})

RECURSIVE Dot(_, _, _)
Dot(u, v, S) ==
  IF S = {} THEN 0
  ELSE LET t == CHOOSE x \in S : TRUE
       IN  u[t] * v[t] + Dot(u, v, S \ {t})

\* the integer square root, by Newton's iteration from r
RECURSIVE IsqrtFrom(_, _)
IsqrtFrom(x, r) ==
  LET next == (r + x \div r) \div 2
  IN  IF next >= r THEN r ELSE IsqrtFrom(x, next)

Isqrt(x) == IF x = 0 THEN 0 ELSE IsqrtFrom(x, x)

\* sklearn.preprocessing.normalize(norm='l2'): a zero vector stays zero;
\* the components of the result are in 1/10000
Normalize(v) ==
  LET norm == Isqrt(SumSq(v, DOMAIN v))
  IN  IF norm = 0 THEN [t \in DOMAIN v |-> 0]
      ELSE [t \in DOMAIN v |-> (v[t] * 10000) \div norm]

\* transform: tf * idf over the fitted vocabulary (terms outside it are
\* dropped), then the l2 norm
TfidfVector(ts, toks) ==
  Normalize([t \in Vocabulary(toks) |-> Count(t, ts) * Idf(t, toks)])

\* CosineSimilarity with the distance (1 - cosine) computed in its place
CosineDistance(q, d) ==
  1000000 - Dot(Normalize(q), Normalize(d), DOMAIN q) \div 100

\* cosine_similarity(query_vec, tfidf_matrix): both sides are normalized
\* again, then the dot product; the result is in 1/1000000
CosineSimilarity(q, d) ==
  Dot(Normalize(q), Normalize(d), DOMAIN q) \div 100

\* round(sim_score, 4): round half to even, in 1/10000
Round4(sim) ==
  LET q == sim \div 100
      r == sim % 100
  IN  IF r < 50 THEN q
      ELSE IF r > 50 THEN q + 1
      ELSE IF q % 2 = 0 THEN q ELSE q + 1

(***************************************************************************)
(* find_coordinators: the pure steps.                                      *)
(***************************************************************************)
TextCols == <<"title", "objective", "topics">>

\* text_data: the text columns the table has, in the order title,
\* objective, topics
PresentTextCols(columns) ==
  LET Present(c) == c \in columns
  IN  SelectSeq(TextCols, Present)

\* CellText without fillna(''): a null cell stays null
CellTextUnfilled(row, col) == row[col]

\* projects_df[col].fillna('').astype(str), for one row
CellText(row, col) == FillNa(row[col])

\* combined_text of one row: text_data[0], then ' ' + col_data for each
\* further present column
RECURSIVE CombineFrom(_, _, _, _)
CombineFrom(row, cols, k, acc) ==
  IF k > Len(cols) THEN acc
  ELSE CombineFrom(row, cols, k + 1, SpaceJoin(acc, CellText(row, cols[k])))

CombinedText(row, cols) == CombineFrom(row, cols, 2, CellText(row, cols[1]))

\* similarities: the cosine of the query vector with every document vector
Similarities(q, docs) ==
  LET toks == [k \in DOMAIN docs |-> Analyze(docs[k])]
      qv   == TfidfVector(Analyze(q), toks)
  IN  [k \in DOMAIN docs |-> CosineSimilarity(qv, TfidfVector(toks[k], toks))]

\* fit_transform raises ValueError("empty vocabulary; ...") when no
\* document has a term left
EmptyVocabulary(docs) == \A k \in DOMAIN docs : Analyze(docs[k]) = <<>>

\* the results argsort() may give: numpy's default sort (quicksort) is not
\* stable, so any order of the indices that is ascending in similarity
AscendingOrders(sims) ==
  LET N == Len(sims)
  IN  { p \in [1..N -> 1..N] :
          /\ \A a, b \in 1..N : a # b => p[a] # p[b]
          /\ \A a \in 1..N : a < N => sims[p[a]] <= sims[p[a + 1]] }

\* where the slice a[-n:] starts (0-based), for len(a) = len
SliceStart(n, len) ==
  IF -n < 0 THEN (IF len - n < 0 THEN 0 ELSE len - n)
  ELSE (IF -n > len THEN len ELSE -n)

\* a[::-1]
Reverse(s) == [k \in 1..Len(s) |-> s[Len(s) + 1 - k]]

\* TopIndices without the reversal [::-1]
TopIndicesUnreversed(order, n) ==
  SubSeq(order, SliceStart(n, Len(order)) + 1, Len(order))

\* similarities.argsort()[-n_top:][::-1], for one result of argsort
TopIndices(order, n) ==
  Reverse(SubSeq(order, SliceStart(n, Len(order)) + 1, Len(order)))

CoordinatorRole == <<"c","o","o","r","d","i","n","a","t","o","r">>

\* project.get('projectID', project.get('id', 'Unknown'))
ProjectId(project) == Get(project, "projectID", Get(project, "id", "Unknown"))

\* orgs_df[orgs_df['projectID'] == project_id]: the row numbers kept
ProjectOrgs(orgs, project_id) ==
  {j \in DOMAIN orgs.rows : orgs.rows[j]["projectID"] = project_id}

\* IsCoordinator without str.lower()
IsCoordinatorCaseSensitive(org) == org["role"] = CoordinatorRole

\* project_orgs['role'].str.lower() == 'coordinator'
IsCoordinator(org) == Lower(org["role"]) = CoordinatorRole

\* coordinators: the row numbers of orgs_df kept by both filters; empty
\* when the role column is missing
Coordinators(orgs, project_id) ==
  IF "role" \in orgs.columns
    THEN {j \in ProjectOrgs(orgs, project_id) : IsCoordinator(orgs.rows[j])}
    ELSE {}

\* the rows of a set of row numbers in table order (iterrows)
RECURSIVE InRowOrder(_)
InRowOrder(S) ==
  IF S = {} THEN <<>>
  ELSE LET m == CHOOSE x \in S : \A y \in S : x <= y
       IN  <<m>> \o InRowOrder(S \ {m})

UnknownText == <<"U","n","k","n","o","w","n">>

\* the fields of a result row that come from the project
ProjectFields(project, sim) ==
  [ SimilarityScore |-> Round4(sim),
    ProjectID       |-> ProjectId(project),
    ProjectAcronym  |-> Get(project, "acronym", "Unknown"),
    ProjectTitle    |-> Get(project, "title", UnknownText),
    StartDate       |-> Get(project, "startDate", "Unknown"),
    EndDate         |-> Get(project, "endDate", "Unknown") ]

\* results.append({...}) for one coordinator
CoordinatorRow(project, sim, org) ==
  ProjectFields(project, sim) @@
  [ CoordinatorName    |-> Get(org, "name", "Unknown"),
    CoordinatorCountry |-> Get(org, "country", "Unknown"),
    CoordinatorCity    |-> Get(org, "city", "Unknown") ]

\* results.append({...}) when no coordinator was found
NoneFoundRow(project, sim) ==
  ProjectFields(project, sim) @@
  [ CoordinatorName    |-> "None found",
    CoordinatorCountry |-> "",
    CoordinatorCity    |-> "" ]

\* EmittedFor without the else branch: a project with no coordinator gets
\* no row
EmittedForWithoutNoneFound(project, sim, orgs) ==
  LET coordinators == InRowOrder(Coordinators(orgs, ProjectId(project)))
  IN  [k \in DOMAIN coordinators |->
         [ row |-> CoordinatorRow(project, sim, orgs.rows[coordinators[k]]),
           org |-> coordinators[k] ]]

\* EmittedFor with one row per project: only the first coordinator
EmittedForFirstCoordinator(project, sim, orgs) ==
  LET coordinators == InRowOrder(Coordinators(orgs, ProjectId(project)))
  IN  IF coordinators # <<>>
        THEN << [ row |-> CoordinatorRow(project, sim, orgs.rows[coordinators[1]]),
                  org |-> coordinators[1] ] >>
        ELSE << [row |-> NoneFoundRow(project, sim), org |-> 0] >>

\* what one loop iteration appends for a project: each result row, with
\* the row of orgs_df it was made from (0 for the 'None found' row)
EmittedFor(project, sim, orgs) ==
  LET coordinators == InRowOrder(Coordinators(orgs, ProjectId(project)))
  IN  IF coordinators # <<>>
        THEN [k \in DOMAIN coordinators |->
                [ row |-> CoordinatorRow(project, sim, orgs.rows[coordinators[k]]),
                  org |-> coordinators[k] ]]
        ELSE << [row |-> NoneFoundRow(project, sim), org |-> 0] >>

(***************************************************************************)
(* The tables and queries the model runs the pipeline on.                  *)
(***************************************************************************)
AISea == <<"A","I"," ","s","e","a">>
Sea == <<"s","e","a">>
Bog == <<"b","o","g">>
Of == <<"o","f">>
QueryAISea == <<"T","h","e"," ","A","I"," ","s","e","a">>
QueryQuantum == <<"q","u","a","n","t","u","m">>
RoleCoordinator == <<"C","o","o","r","d","i","n","a","t","o","r">>
RolePartner == <<"p","a","r","t","n","e","r">>

ProjectIds == <<"P1", "p1", "P2", "P3", "P4", "P5">>
Acronyms == <<"A1", "A2", "A3", "A4", "A5", "A6">>
OrgNames == <<"OrgA", "OrgB", "OrgC", "OrgD", "OrgE">>

\* the cell of row i in a column that holds no text
PlainCell(c, i) ==
  CASE c = "projectID" -> ProjectIds[i]
    [] c = "id"        -> IF i = 1 THEN "X1" ELSE ProjectIds[i]
    [] c = "acronym"   -> Acronyms[i]
    [] c = "startDate" -> "2021-01-01"
    [] c = "endDate"   -> "2027-12-31"
    [] c = "name"      -> OrgNames[i]
    [] c = "shortName" -> "short"
    [] c = "country"   -> "FR"
    [] c = "city"      -> "Paris"

IsTextCol(c) == c \in Range(TextCols)

\* a projects table with the given columns, whose text cells are texts[i][c]
ProjectsTable(columns, texts) ==
  [ columns |-> columns,
    rows    |-> [i \in DOMAIN texts |->
                  [c \in columns |-> IF IsTextCol(c) THEN texts[i][c]
                                     ELSE PlainCell(c, i)]] ]

\* an organizations table with the given columns, whose rows have the
\* given (projectID, role) pairs
OrgsTable(columns, links) ==
  [ columns |-> columns,
    rows    |-> [j \in DOMAIN links |->
                  [c \in columns |-> CASE c = "projectID" -> links[j][1]
                                       [] c = "role"      -> links[j][2]
                                       [] OTHER           -> PlainCell(c, j)]] ]

OrgColumns == {"projectID", "role", "name", "shortName", "country", "city"}

\* the example of the specification: P1 has coordinator OrgA, p1 has none,
\* P2 has a partner only
ExampleOrgs ==
  OrgsTable(OrgColumns, << <<"P1", RoleCoordinator>>, <<"P2", RolePartner>> >>)

ExampleProjects ==
  ProjectsTable({"projectID", "title", "acronym", "startDate", "endDate"},
                << [c \in {"title"} |-> AISea],
                   [c \in {"title"} |-> Sea],
                   [c \in {"title"} |-> Bog] >>)

SeqsUpTo(S, lo, hi) == UNION {[1..n -> S] : n \in lo..hi}

\* inputs that vary the schema and the text cells of the projects table
TextSchemas ==
  {S \cup {"id"} : S \in SUBSET Range(TextCols)}
    \cup {{"objective"}, {"projectID", "acronym"}}

\* the text of a text cell that is not null
ColumnText(c) ==
  CASE c = "title" -> AISea
    [] c = "objective" -> Of
    [] c = "topics" -> Bog

\* every cell of a text column is null or holds the column's text
TextInputs ==
  { [ projects |->
        ProjectsTable(S, [i \in DOMAIN filled |->
                            [c \in DOMAIN filled[i] |->
                               IF filled[i][c] THEN ColumnText(c) ELSE NaN]]),
      orgs |-> ExampleOrgs, query |-> QueryAISea, n_top |-> 2, env |-> "ok" ] :
      <<S, filled>> \in
        UNION { {S} \X SeqsUpTo([S \cap Range(TextCols) -> BOOLEAN], 1, MaxTextRows) :
                S \in TextSchemas } }

\* inputs that vary the corpus, the query and n_top
RankInputs ==
  { [ projects |-> ProjectsTable({"projectID", "title"}, t), orgs |-> ExampleOrgs,
      query |-> q, n_top |-> n, env |-> "ok" ] :
      t \in SeqsUpTo([{"title"} -> {AISea, Sea, Bog}], 0, MaxProjects),
      q \in {QueryAISea, QueryQuantum},
      n \in -1..MaxTopN }

\* inputs that vary the organizations table and the identifier columns
ExampleTitles ==
  << [c \in {"title"} |-> AISea], [c \in {"title"} |-> Sea], [c \in {"title"} |-> Bog] >>

JoinInputs ==
  { [ projects |-> ProjectsTable({"title", "acronym"} \cup ids, ExampleTitles),
      orgs |-> OrgsTable(cols, links),
      query |-> QueryAISea, n_top |-> 3, env |-> "ok" ] :
      ids \in SUBSET {"projectID", "id"},
      cols \in {OrgColumns, OrgColumns \ {"role"}, {"projectID", "role"}},
      links \in SeqsUpTo({"P1", "p1", "X1", "Unknown"} \X {RoleCoordinator, RolePartner},
                         0, MaxOrgs) }

\* inputs for which load_data does not deliver the tables
FailingInputs ==
  { [ projects |-> ExampleProjects, orgs |-> ExampleOrgs,
      query |-> QueryAISea, n_top |-> 3, env |-> e ] :
      e \in {"unreadable", "download_fails"} }

Inputs == TextInputs \cup RankInputs \cup JoinInputs \cup FailingInputs

\* what the files cordis-HEprojects.csv and cordis-HEorganizations.csv of
\* the working directory may hold when they exist
FallbackTables ==
  { [projects |-> ExampleProjects, orgs |-> ExampleOrgs],
    [projects |-> ProjectsTable({"projectID", "acronym"}, ExampleTitles),
     orgs |-> ExampleOrgs] }

EmptyTable == [columns |-> {}, rows |-> <<>>]

(***************************************************************************)
(* The state.                                                              *)
(***************************************************************************)
VARIABLES
  pc,             \* where find_coordinators is
  input,          \* the files on disk, the query, n_top
  projects_df,    \* the projects table, with combined_text once computed
  orgs_df,        \* the organizations table
  similarities,   \* the similarity of each project, in 1/1000000
  top_indices,    \* the selected project rows (1-based), best first
  pos,            \* how many entries of top_indices the loop has done
  results,        \* the result rows
  trace,          \* for each result row: its project row and its orgs row
  outcome,        \* "running", "None", "results" or the exception raised
  dl_pc,          \* where download_and_extract is
  fs,             \* the files of data_dir
  written,        \* the chunks the running download has written
  invocations,    \* the invocations of download_and_extract so far
  downloaded      \* whether a download of cordis.zip has run to completion

pipeVars == <<pc, input, projects_df, orgs_df, similarities, top_indices, pos,
              results, trace, outcome>>
dlVars == <<dl_pc, fs, written, invocations, downloaded>>
vars == <<pipeVars, dlVars>>

IdleDownload ==
  /\ dl_pc = "idle"
  /\ fs = [dir |-> TRUE, project_csv |-> TRUE, org_csv |-> TRUE, zip |-> "complete"]
  /\ written = 0
  /\ invocations = 0
  /\ downloaded = TRUE

Init ==
  /\ pc = "load_data"
  /\ input \in Inputs
  /\ projects_df = EmptyTable
  /\ orgs_df = EmptyTable
  /\ similarities = <<>>
  /\ top_indices = <<>>
  /\ pos = 0
  /\ results = <<>>
  /\ trace = <<>>
  /\ outcome = "running"
  /\ IdleDownload

(***************************************************************************)
(* find_coordinators, step by step.                                        *)
(***************************************************************************)
Finish(how) ==
  /\ pc' = "done"
  /\ outcome' = how

\* load_data returns the two tables
LoadData ==
  /\ pc = "load_data"
  /\ input.env = "ok"
  /\ projects_df' = input.projects
  /\ orgs_df' = input.orgs
  /\ pc' = "check_columns"
  /\ UNCHANGED <<input, similarities, top_indices, pos, results, trace, outcome, dlVars>>

\* read_csv raises: load_data returns (None, None) and find_coordinators
\* returns None
LoadDataUnreadable ==
  /\ pc = "load_data"
  /\ input.env = "unreadable"
  /\ Finish("None")
  /\ UNCHANGED <<input, projects_df, orgs_df, similarities, top_indices, pos,
                 results, trace, dlVars>>

\* download_and_extract raises: nothing catches it before the caller
LoadDataDownloadFails ==
  /\ pc = "load_data"
  /\ input.env = "download_fails"
  /\ Finish("DownloadError")
  /\ UNCHANGED <<input, projects_df, orgs_df, similarities, top_indices, pos,
                 results, trace, dlVars>>

\* 'title' not in columns and exactly one column: the comma fallback
NeedsFallback(df) == "title" \notin df.columns /\ Cardinality(df.columns) = 1

CheckColumns ==
  /\ pc = "check_columns"
  /\ ~NeedsFallback(projects_df)
  /\ pc' = "combine"
  /\ UNCHANGED <<input, projects_df, orgs_df, similarities, top_indices, pos,
                 results, trace, outcome, dlVars>>

\* the fallback files exist and replace both tables
FallbackReload ==
  /\ pc = "check_columns"
  /\ NeedsFallback(projects_df)
  /\ \E alt \in FallbackTables :
       /\ projects_df' = alt.projects
       /\ orgs_df' = alt.orgs
  /\ pc' = "combine"
  /\ UNCHANGED <<input, similarities, top_indices, pos, results, trace, outcome, dlVars>>

\* the fallback files do not exist: read_csv raises FileNotFoundError
FallbackMissing ==
  /\ pc = "check_columns"
  /\ NeedsFallback(projects_df)
  /\ Finish("FileNotFoundError")
  /\ UNCHANGED <<input, projects_df, orgs_df, similarities, top_indices, pos,
                 results, trace, dlVars>>

\* no text column: the message is printed and None is returned
NoTextColumns ==
  /\ pc = "combine"
  /\ PresentTextCols(projects_df.columns) = <<>>
  /\ Finish("None")
  /\ UNCHANGED <<input, projects_df, orgs_df, similarities, top_indices, pos,
                 results, trace, dlVars>>

\* projects_df with the column combined_text added
WithCombinedText(df) ==
  LET cols == PresentTextCols(df.columns)
  IN  [ columns |-> df.columns \cup {"combined_text"},
        rows    |-> [i \in DOMAIN df.rows |->
                      [c \in df.columns \cup {"combined_text"} |->
                         IF c = "combined_text" THEN CombinedText(df.rows[i], cols)
                         ELSE df.rows[i][c]]] ]

Combine ==
  /\ pc = "combine"
  /\ PresentTextCols(projects_df.columns) # <<>>
  /\ projects_df' = WithCombinedText(projects_df)
  /\ pc' = "vectorize"
  /\ UNCHANGED <<input, orgs_df, similarities, top_indices, pos, results, trace,
                 outcome, dlVars>>

Corpus(df) == [i \in DOMAIN df.rows |-> df.rows[i]["combined_text"]]

\* fit_transform raises ValueError on an empty vocabulary
VectorizeFails ==
  /\ pc = "vectorize"
  /\ EmptyVocabulary(Corpus(projects_df))
  /\ Finish("ValueError")
  /\ UNCHANGED <<input, projects_df, orgs_df, similarities, top_indices, pos,
                 results, trace, dlVars>>

Vectorize ==
  /\ pc = "vectorize"
  /\ ~EmptyVocabulary(Corpus(projects_df))
  /\ similarities' = Similarities(input.query, Corpus(projects_df))
  /\ pc' = "rank"
  /\ UNCHANGED <<input, projects_df, orgs_df, top_indices, pos, results, trace,
                 outcome, dlVars>>

Rank ==
  /\ pc = "rank"
  /\ \E order \in AscendingOrders(similarities) :
       top_indices' = TopIndices(order, input.n_top)
  /\ pc' = "loop"
  /\ UNCHANGED <<input, projects_df, orgs_df, similarities, pos, results, trace,
                 outcome, dlVars>>

\* one iteration of the loop over top_indices
LoopIteration ==
  /\ pc = "loop"
  /\ pos < Len(top_indices)
  /\ LET idx     == top_indices[pos + 1]
         emitted == EmittedFor(projects_df.rows[idx], similarities[idx], orgs_df)
     IN  /\ results' = results \o [k \in DOMAIN emitted |-> emitted[k].row]
         /\ trace' = trace \o [k \in DOMAIN emitted |->
                                 [idx |-> idx, org |-> emitted[k].org]]
  /\ pos' = pos + 1
  /\ UNCHANGED <<pc, input, projects_df, orgs_df, similarities, top_indices,
                 outcome, dlVars>>

\* return results
Return ==
  /\ pc = "loop"
  /\ pos = Len(top_indices)
  /\ Finish("results")
  /\ UNCHANGED <<input, projects_df, orgs_df, similarities, top_indices, pos,
                 results, trace, dlVars>>

Next ==
  \/ LoadData
  \/ LoadDataUnreadable
  \/ LoadDataDownloadFails
  \/ CheckColumns
  \/ FallbackReload
  \/ FallbackMissing
  \/ NoTextColumns
  \/ Combine
  \/ VectorizeFails
  \/ Vectorize
  \/ Rank
  \/ LoopIteration
  \/ Return

Spec == Init /\ [][Next]_vars

(***************************************************************************)
(* download_and_extract(url, data_dir), step by step, over repeated runs   *)
(* of the program on the same data_dir.  zip is "absent", "partial" (the   *)
(* file exists but its download did not finish) or "complete".             *)
(***************************************************************************)
InitDL ==
  /\ pc = "load_data"
  /\ input = [ projects |-> ExampleProjects, orgs |-> ExampleOrgs,
               query |-> QueryAISea, n_top |-> 3, env |-> "ok" ]
  /\ projects_df = EmptyTable
  /\ orgs_df = EmptyTable
  /\ similarities = <<>>
  /\ top_indices = <<>>
  /\ pos = 0
  /\ results = <<>>
  /\ trace = <<>>
  /\ outcome = "running"
  /\ dl_pc = "idle"
  /\ \E d \in BOOLEAN :
       fs = [dir |-> d, project_csv |-> FALSE, org_csv |-> FALSE, zip |-> "absent"]
  /\ written = 0
  /\ invocations = 0
  /\ downloaded = FALSE

\* a run of the program calls download_and_extract
Invoke ==
  /\ dl_pc \in {"idle", "returned", "raised"}
  /\ invocations < MaxInvocations
  /\ invocations' = invocations + 1
  /\ dl_pc' = "check_dir"
  /\ UNCHANGED <<fs, written, downloaded, pipeVars>>

\* if not os.path.exists(data_dir): os.makedirs(data_dir)
MakeDirs ==
  /\ dl_pc = "check_dir"
  /\ fs' = [fs EXCEPT !.dir = TRUE]
  /\ dl_pc' = "check_cache"
  /\ UNCHANGED <<written, invocations, downloaded, pipeVars>>

\* both CSV files exist: return
UseCache ==
  /\ dl_pc = "check_cache"
  /\ fs.project_csv /\ fs.org_csv
  /\ dl_pc' = "returned"
  /\ UNCHANGED <<fs, written, invocations, downloaded, pipeVars>>

\* if not os.path.exists(zip_path): go and download
ZipMissing ==
  /\ dl_pc = "check_cache"
  /\ ~(fs.project_csv /\ fs.org_csv)
  /\ fs.zip = "absent"
  /\ dl_pc' = "get"
  /\ UNCHANGED <<fs, written, invocations, downloaded, pipeVars>>

\* zip_path exists: the download is skipped
ZipFound ==
  /\ dl_pc = "check_cache"
  /\ ~(fs.project_csv /\ fs.org_csv)
  /\ fs.zip # "absent"
  /\ dl_pc' = "extract"
  /\ UNCHANGED <<fs, written, invocations, downloaded, pipeVars>>

\* requests.get or raise_for_status raises: re-raised, no file written
GetFails ==
  /\ dl_pc = "get"
  /\ dl_pc' = "raised"
  /\ UNCHANGED <<fs, written, invocations, downloaded, pipeVars>>

\* open(zip_path, 'wb') creates the file
OpenZip ==
  /\ dl_pc = "get"
  /\ fs' = [fs EXCEPT !.zip = "partial"]
  /\ written' = 0
  /\ dl_pc' = "write"
  /\ UNCHANGED <<invocations, downloaded, pipeVars>>

\* f.write(chunk)
WriteChunk ==
  /\ dl_pc = "write"
  /\ written < MaxChunks
  /\ written' = written + 1
  /\ UNCHANGED <<dl_pc, fs, invocations, downloaded, pipeVars>>

\* iter_content raises in mid-stream: the file is closed as it is and the
\* exception is re-raised
ChunkFails ==
  /\ dl_pc = "write"
  /\ dl_pc' = "raised"
  /\ UNCHANGED <<fs, written, invocations, downloaded, pipeVars>>

\* the stream ends: "Download complete."
DownloadComplete ==
  /\ dl_pc = "write"
  /\ written >= 1
  /\ fs' = [fs EXCEPT !.zip = "complete"]
  /\ downloaded' = TRUE
  /\ dl_pc' = "extract"
  /\ UNCHANGED <<written, invocations, pipeVars>>

\* zipfile.ZipFile(zip_path).extractall(data_dir) on a whole archive
\* writes its members one after the other, in the archive's order
ExtractMember ==
  /\ dl_pc = "extract"
  /\ fs.zip = "complete"
  /\ \/ ~fs.project_csv /\ fs' = [fs EXCEPT !.project_csv = TRUE]
     \/ ~fs.org_csv /\ fs' = [fs EXCEPT !.org_csv = TRUE]
  /\ UNCHANGED <<dl_pc, written, invocations, downloaded, pipeVars>>

\* "Extraction complete."
ExtractDone ==
  /\ dl_pc = "extract"
  /\ fs.zip = "complete"
  /\ fs.project_csv /\ fs.org_csv
  /\ dl_pc' = "returned"
  /\ UNCHANGED <<fs, written, invocations, downloaded, pipeVars>>

\* the same on a truncated archive: zipfile raises BadZipFile
ExtractTruncated ==
  /\ dl_pc = "extract"
  /\ fs.zip = "partial"
  /\ dl_pc' = "raised"
  /\ UNCHANGED <<fs, written, invocations, downloaded, pipeVars>>

NextDL ==
  \/ Invoke
  \/ MakeDirs
  \/ UseCache
  \/ ZipMissing
  \/ ZipFound
  \/ GetFails
  \/ OpenZip
  \/ WriteChunk
  \/ ChunkFails
  \/ DownloadComplete
  \/ ExtractMember
  \/ ExtractDone
  \/ ExtractTruncated

SpecDL == InitDL /\ [][NextDL]_vars

(***************************************************************************)
(* The claims.                                                             *)
(***************************************************************************)
Returned == pc = "done" /\ outcome = "results"
CorpusBuilt == "combined_text" \in projects_df.columns
CorpusSize == Len(projects_df.rows)
Min(a, b) == IF a <= b THEN a ELSE b

\* the rows of results made for project row idx
RowsOf(idx) == {r \in DOMAIN trace : trace[r].idx = idx}
\* the project rows the results represent
Represented == {trace[r].idx : r \in DOMAIN trace}
\* the position of project row idx in top_indices
RankOf(idx) == CHOOSE k \in DOMAIN top_indices : top_indices[k] = idx

\* organization row j has the identifier of project row idx and a role
\* that is 'coordinator' up to letter case
Resolves(j, idx) ==
  /\ orgs_df.rows[j]["projectID"] = ProjectId(projects_df.rows[idx])
  /\ "role" \in orgs_df.columns
  /\ Lower(orgs_df.rows[j]["role"]) = <<"c","o","o","r","d","i","n","a","t","o","r">>
ResolvedFor(idx) == {j \in DOMAIN orgs_df.rows : Resolves(j, idx)}

\* C1: for a non-empty corpus of N projects and top_n >= 0, the returned
\* rows represent exactly min(top_n, N) distinct corpus rows.
C1_Coverage ==
  (Returned /\ CorpusSize >= 1 /\ input.n_top >= 0)
    => Cardinality(Represented) = Min(input.n_top, CorpusSize)

\* C2: of two selected projects with equal similarity, the one earlier in
\* the projects table is ranked before the other.
C2_TiesInRowOrder ==
  pc \in {"loop", "done"} =>
    \A a, b \in DOMAIN top_indices :
      (a < b /\ similarities[top_indices[a]] = similarities[top_indices[b]])
        => top_indices[a] < top_indices[b]

UpperChar(c) ==
  IF \E k \in DOMAIN Lowers : Lowers[k] = c
    THEN Uppers[CHOOSE k \in DOMAIN Lowers : Lowers[k] = c]
    ELSE c
Recased(orgs, F(_)) ==
  [ columns |-> orgs.columns,
    rows    |-> [j \in DOMAIN orgs.rows |->
                  [c \in orgs.columns |->
                     IF c = "role"
                       THEN [k \in DOMAIN orgs.rows[j][c] |-> F(orgs.rows[j][c][k])]
                       ELSE orgs.rows[j][c]]] ]

\* C4: the coordinators resolved for a handled project with identifier X
\* are exactly the organization rows whose projectID is X and whose role is
\* 'coordinator' up to letter case; recasing the roles changes nothing.
C4_ExactJoin ==
  LET upper == Recased(orgs_df, UpperChar)
      lower == Recased(orgs_df, LowerChar)
  IN  \A k \in 1..pos :
        LET idx == top_indices[k]
            X   == ProjectId(projects_df.rows[idx])
            now == Coordinators(orgs_df, X)
        IN  /\ {trace[r].org : r \in RowsOf(idx)} \ {0} = ResolvedFor(idx)
            /\ Coordinators(upper, X) = now
            /\ Coordinators(lower, X) = now

C4_Witness ==
  /\ Returned
  /\ \E r \in DOMAIN trace, j \in DOMAIN orgs_df.rows :
       /\ trace[r].org # 0
       /\ orgs_df.rows[trace[r].org]["role"] = RoleCoordinator
       /\ "role" \in orgs_df.columns
       /\ orgs_df.rows[j]["role"] = RoleCoordinator
       /\ orgs_df.rows[j]["projectID"] = "p1"
       /\ results[r].ProjectID = "P1"

\* C5: when the projects table has none of title, objective and topics,
\* the pipeline does not return normally: it fails with an error.
C5_FailsWithoutTextColumns ==
  ( /\ pc = "done"
    /\ projects_df = input.projects
    /\ Len(projects_df.rows) >= 1
    /\ PresentTextCols(projects_df.columns) = <<>> )
    => outcome \notin {"None", "results"}

\* the query has no term of the corpus vocabulary
QueryOutOfVocabulary ==
  LET docs == Corpus(projects_df)
  IN  Range(Analyze(input.query))
        \cap Vocabulary([k \in DOMAIN docs |-> Analyze(docs[k])]) = {}

AllZeroTopN ==
  /\ outcome = "results"
  /\ Cardinality(Represented) = input.n_top
  /\ \A r \in DOMAIN results : results[r].SimilarityScore = 0
  /\ \A r \in DOMAIN trace : similarities[trace[r].idx] = 0

C7_ScoresDescend ==
  \A k \in DOMAIN results :
    k < Len(results) => results[k].SimilarityScore >= results[k + 1].SimilarityScore

C7_Witness ==
  /\ Returned
  /\ \E k \in DOMAIN results :
       k < Len(results) /\ results[k].SimilarityScore > results[k + 1].SimilarityScore
  /\ \E k \in DOMAIN trace :
       k < Len(trace) /\ trace[k].idx = trace[k + 1].idx

\* what C8 says combined_text is: the cells of the present columns among
\* title, objective, topics, null read as '', with one space between them
ExpectedText(row, columns) ==
  LET Cell(c) == IF row[c] = NaN THEN <<>> ELSE row[c]
      parts == (IF "title" \in columns THEN <<Cell("title")>> ELSE <<>>)
            \o (IF "objective" \in columns THEN <<Cell("objective")>> ELSE <<>>)
            \o (IF "topics" \in columns THEN <<Cell("topics")>> ELSE <<>>)
  IN  CASE Len(parts) = 1 -> parts[1]
        [] Len(parts) = 2 -> parts[1] \o <<" ">> \o parts[2]
        [] Len(parts) = 3 -> parts[1] \o <<" ">> \o parts[2] \o <<" ">> \o parts[3]

\* C8: combined_text of every row is the concatenation, in the order title,
\* objective, topics, of the cells of the columns the table has, joined by
\* one space, a null cell counting as the empty string.
C8_CombinedText ==
  CorpusBuilt =>
    \A i \in DOMAIN projects_df.rows :
      /\ projects_df.rows[i]["combined_text"]
           = ExpectedText(projects_df.rows[i], projects_df.columns)
      /\ "NaN" \notin Range(projects_df.rows[i]["combined_text"])

C8_Witness ==
  /\ CorpusBuilt
  /\ "title" \notin projects_df.columns
  /\ "objective" \in projects_df.columns
  /\ "topics" \in projects_df.columns
  /\ \E i \in DOMAIN projects_df.rows :
       /\ projects_df.rows[i]["objective"] = NaN
       /\ projects_df.rows[i]["topics"] = Bog
       /\ projects_df.rows[i]["combined_text"] = <<" ">> \o Bog

\* C9: a handled project with k >= 1 resolved coordinators has exactly k
\* rows, one per coordinator, in organizations-table order and none of them
\* 'None found'; the rows of a project are contiguous and the groups follow
\* rank order.
C9_OneRowPerCoordinator ==
  /\ \A k \in 1..pos :
       LET idx == top_indices[k]
       IN  ResolvedFor(idx) # {} =>
             /\ Cardinality(RowsOf(idx)) = Cardinality(ResolvedFor(idx))
             /\ {trace[r].org : r \in RowsOf(idx)} = ResolvedFor(idx)
             /\ \A r \in RowsOf(idx) :
                  results[r].CoordinatorName
                    = Get(orgs_df.rows[trace[r].org], "name", "Unknown")
  /\ \A r, s \in DOMAIN trace :
       r < s =>
         \/ RankOf(trace[r].idx) < RankOf(trace[s].idx)
         \/ trace[r].idx = trace[s].idx /\ trace[r].org < trace[s].org

C9_Witness ==
  /\ Returned
  /\ \E r \in DOMAIN trace :
       /\ r + 2 <= Len(trace)
       /\ trace[r].idx = trace[r + 1].idx
       /\ trace[r].org = 1 /\ trace[r + 1].org = 2
       /\ trace[r + 2].idx # trace[r].idx

\* C10: cordis.zip is extracted only after a download of it has run to
\* completion.
C10_ExtractsCompleteDownload ==
  dl_pc = "extract" => (downloaded /\ fs.zip = "complete")

====
